---------------------------- MODULE Spec2Model ----------------------------
(***************************************************************************)
(* A model of yt-dlp-wrapper.py: the platform classifier, the Premium      *)
(* format scan, the command builder and the download orchestrator with    *)
(* its fallback retries (VideoDownloader.download_video and main).         *)
(*                                                                         *)
(* Text.  A Python str is modelled as a sequence of pieces (TLA+ strings)  *)
(* whose concatenation is the str.  URLs, titles and dates are cut into    *)
(* single characters; command-line tokens and diagnostic text are cut     *)
(* into the lexemes the program concatenates or searches for.  `+` and     *)
(* f-strings are \o, `a in b` is Contains(b, a), b.startswith(a) is        *)
(* StartsWith(b, a).  An Optional value is <<>> for None and <<v>> for v.  *)
(***************************************************************************)
EXTENDS Integers, Sequences, FiniteSets, TLC

VARIABLES
    pc,          \* where main() is: "start", "running", "exited"
                 \*   (or "call"/"returned"/"rebuilt" when one function is exercised)
    env,         \* what _validate_dependencies finds on the host
    request,     \* the parsed command line (args, extra_args)
    stack,       \* activation records of download_video, innermost last
    attempts,    \* the download attempts issued so far, in order
    lastOutcome, \* how the latest download attempt ended
    dirsUsed,    \* the output directories handed to download attempts
    exit_code,   \* the status passed to sys.exit, <<>> while running
    arg,         \* input of the function exercised on its own
    res          \* its result

vars == <<pc, env, request, stack, attempts, lastOutcome, dirsUsed, exit_code, arg, res>>

None == <<>>
Some(v) == <<v>>
\* Truth value of an Optional[str] and of an Optional[int]
TruthyStr(opt) == opt # None /\ opt[1] # <<>>
TruthyInt(opt) == opt # None /\ opt[1] # 0

(***************************************************************************)
(* str operations                                                          *)
(***************************************************************************)
\* b.startswith(a)
StartsWith(b, a) == Len(a) <= Len(b) /\ SubSeq(b, 1, Len(a)) = a

\* a in b  (substring)
Contains(b, a) == \E i \in 0..(Len(b) - Len(a)) : SubSeq(b, i + 1, i + Len(a)) = a

LowerLetters == <<"a","b","c","d","e","f","g","h","i","j","k","l","m","n","o","p","q","r","s","t","u","v","w","x","y","z">>
UpperLetters == <<"A","B","C","D","E","F","G","H","I","J","K","L","M","N","O","P","Q","R","S","T","U","V","W","X","Y","Z">>

LowerChar(c) ==
    IF \E i \in 1..Len(UpperLetters) : UpperLetters[i] = c
    THEN LowerLetters[CHOOSE i \in 1..Len(UpperLetters) : UpperLetters[i] = c]
    ELSE c

UpperChar(c) ==
    IF \E i \in 1..Len(LowerLetters) : LowerLetters[i] = c
    THEN UpperLetters[CHOOSE i \in 1..Len(LowerLetters) : LowerLetters[i] = c]
    ELSE c

\* url.lower()
Lower(s) == [i \in 1..Len(s) |-> LowerChar(s[i])]

(***************************************************************************)
(* Configuration constants                                                 *)
(***************************************************************************)
YOUTUBE_COM == <<"y","o","u","t","u","b","e",".","c","o","m">>
YOUTU_BE == <<"y","o","u","t","u",".","b","e">>
TWITTER_COM == <<"t","w","i","t","t","e","r",".","c","o","m">>
X_COM == <<"x",".","c","o","m">>

\* The dict in insertion order: <<platform, domains>>
SUPPORTED_PLATFORMS ==
    << <<"youtube", <<YOUTUBE_COM, YOUTU_BE>> >>,
       <<"x", <<TWITTER_COM, X_COM>> >>,
       <<"other", <<>> >> >>

YOUTUBE_CLIENTS ==
    << <<"web">>, <<"android">>, <<"tv">>, <<"tv_downgraded">>, <<"mweb">>,
       <<"web_music">>, <<"android_music">> >>

DEFAULT_FORMAT_SELECTOR ==
    <<"bestvideo[height<=2160][vcodec~='^(av01|vp9|avc1)']+bestaudio/bestvideo[height<=1440][vcodec~='^(av01|vp9|avc1)']+bestaudio/bestvideo[height<=1080][vcodec~='^(av01|vp9|avc1)']+bestaudio/bestvideo[height<=720][vcodec~='^(av01|vp9|avc1)']+bestaudio/best[ext=mp4]/best">>

(***************************************************************************)
(* detect_platform                                                         *)
(***************************************************************************)
\* any(domain in url_lower for domain in domains)
AnyDomainIn(domains, url_lower) ==
    \E k \in 1..Len(domains) : Contains(url_lower, domains[k])

\* The for loop over SUPPORTED_PLATFORMS.items(), from entry i on.
RECURSIVE ScanPlatforms(_, _, _)
ScanPlatforms(table, i, url_lower) ==
    IF i > Len(table) THEN "other"
    ELSE IF AnyDomainIn(table[i][2], url_lower) THEN table[i][1]
    ELSE ScanPlatforms(table, i + 1, url_lower)

\* A classifier that compares the URL as given, without lower-casing it.
detect_platform_cased(url) == ScanPlatforms(SUPPORTED_PLATFORMS, 1, url)

detect_platform(url) == ScanPlatforms(SUPPORTED_PLATFORMS, 1, Lower(url))

(***************************************************************************)
(* URLs the classifier is exercised on                                     *)
(***************************************************************************)
NETFLIX_COM == <<"n","e","t","f","l","i","x",".","c","o","m">>
VIMEO_COM == <<"v","i","m","e","o",".","c","o","m">>
YOUTUBE_CO == <<"y","o","u","t","u","b","e",".","c","o">>
M_DOT == <<"m",".">>
PATH_A == <<"/","a">>
QUERY_X == <<"/","?","u","=","x",".","c","o","m">>
QUERY_YT == <<"/","?","u","=","y","o","u","t","u",".","b","e">>

UrlHosts == {YOUTUBE_COM, YOUTU_BE, TWITTER_COM, X_COM, NETFLIX_COM, VIMEO_COM, YOUTUBE_CO, <<>>}
UrlPrefixes == {<<>>, M_DOT}
UrlTails == {<<>>, PATH_A, QUERY_X, QUERY_YT}
Casings == {"lower", "upper", "mixed"}

Recase(casing, s) ==
    [i \in 1..Len(s) |->
        IF casing = "upper" \/ (casing = "mixed" /\ i % 2 = 1)
        THEN UpperChar(s[i]) ELSE LowerChar(s[i])]

Urls ==
    {Recase(c, p \o h \o t) : c \in Casings, p \in UrlPrefixes, h \in UrlHosts, t \in UrlTails}

\* Every re-casing of a URL the model draws.
Recasings(url) == {Recase(c, url) : c \in Casings}

(***************************************************************************)
(* check_premium_formats                                                   *)
(***************************************************************************)
Digits == <<"0","1","2","3","4","5","6","7","8","9">>
IsDigit(c) == \E d \in 1..Len(Digits) : Digits[d] = c
DigitValue(c) == (CHOOSE d \in 1..Len(Digits) : Digits[d] = c) - 1
IsSpace(c) == c \in {" ", "\t", "\n", "\r"}

\* int(s) for a str of digits
RECURSIVE ParseInt(_)
ParseInt(s) ==
    IF s = <<>> THEN 0
    ELSE 10 * ParseInt(SubSeq(s, 1, Len(s) - 1)) + DigitValue(s[Len(s)])

\* The end of the longest run of digits of s that starts at position i
\* (i - 1 when s[i] is no digit): the greedy \d+.
RECURSIVE DigitRunEnd(_, _)
DigitRunEnd(s, i) ==
    IF i <= Len(s) /\ IsDigit(s[i]) THEN DigitRunEnd(s, i + 1) ELSE i - 1

\* re.search(r'^(\d+)\s+', line): group(1), or None
LeadingId(line) ==
    LET e == DigitRunEnd(line, 1) IN
    IF e >= 1 /\ e < Len(line) /\ IsSpace(line[e + 1])
    THEN Some(SubSeq(line, 1, e)) ELSE None

\* Whether (\d+)x(\d+) matches with its first group ending at position j.
ResAt(line, j) ==
    /\ j + 2 <= Len(line)
    /\ IsDigit(line[j])
    /\ line[j + 1] = "x"
    /\ IsDigit(line[j + 2])

\* re.search(r'(\d+)x(\d+)', line): group(2) of the leftmost match, or None
ResHeight(line) ==
    IF \E j \in 1..Len(line) : ResAt(line, j)
    THEN LET j == CHOOSE k \in 1..Len(line) :
                      ResAt(line, k) /\ \A m \in 1..(k - 1) : ~ResAt(line, m)
         IN Some(SubSeq(line, j + 2, DigitRunEnd(line, j + 2)))
    ELSE None

PREMIUM == <<"P","r","e","m","i","u","m">>
BESTAUDIO_BEST == <<"+bestaudio/best">>

\* output.split('\n')
RECURSIVE Split(_)
Split(output) ==
    IF \E i \in 1..Len(output) : output[i] = "\n"
    THEN LET i == CHOOSE k \in 1..Len(output) :
                      output[k] = "\n" /\ \A m \in 1..(k - 1) : output[m] # "\n"
         IN <<SubSeq(output, 1, i - 1)>> \o Split(SubSeq(output, i + 1, Len(output)))
    ELSE <<output>>

\* The body of the for loop over the lines, from line i on, carrying
\* [best_premium_id, best_height].
RECURSIVE ScanFormats(_, _, _)
ScanFormats(lines, i, best) ==
    IF i > Len(lines) THEN best
    ELSE LET line == lines[i]
             id == LeadingId(line)
             res_match == ResHeight(line)
             height == IF res_match # None THEN ParseInt(res_match[1]) ELSE 0
         IN IF ~Contains(line, PREMIUM) THEN ScanFormats(lines, i + 1, best)
            ELSE IF id = None THEN ScanFormats(lines, i + 1, best)
            ELSE IF height > best.best_height
                 THEN ScanFormats(lines, i + 1,
                          [best_premium_id |-> id, best_height |-> height])
                 ELSE ScanFormats(lines, i + 1, best)

\* check_premium_formats, given what _run_command returned for the -F query:
\* the selector as Some(text), or None.
check_premium_formats(success, output) ==
    IF ~success \/ output = <<>> THEN None
    ELSE LET best == ScanFormats(Split(output), 1,
                         [best_premium_id |-> None, best_height |-> 0])
         IN IF best.best_premium_id = None THEN None
            ELSE Some(best.best_premium_id[1] \o BESTAUDIO_BEST)

(***************************************************************************)
(* Format listings the scan is exercised on                                *)
(***************************************************************************)
LINE_1080 == <<"1","3","7"," ","1","9","2","0","x","1","0","8","0"," ","P","r","e","m","i","u","m">>
LINE_1080B == <<"3","9","9"," ","1","9","2","0","x","1","0","8","0"," ","P","r","e","m","i","u","m">>
LINE_720 == <<"6","1","6"," ","1","2","8","0","x","7","2","0"," ","P","r","e","m","i","u","m">>
LINE_NORES == <<"3","5","6"," ","P","r","e","m","i","u","m">>
LINE_PLAIN == <<"1","8"," ","6","4","0","x","3","6","0">>
LINE_STORY == <<"s","b","0"," ","4","8","x","2","7"," ","P","r","e","m","i","u","m">>

ListingLines == {LINE_1080, LINE_1080B, LINE_720, LINE_NORES, LINE_PLAIN, LINE_STORY}

MaxLines == 2

\* '\n'.join(lines)
RECURSIVE JoinLines(_)
JoinLines(lines) ==
    IF lines = <<>> THEN <<>>
    ELSE IF Len(lines) = 1 THEN lines[1]
    ELSE lines[1] \o <<"\n">> \o JoinLines(Tail(lines))

LineSeqs == UNION {[1..n -> ListingLines] : n \in 0..MaxLines}

\* What _run_command can return for the -F query: [success, output].
ListingResults ==
    {[success |-> TRUE, output |-> JoinLines(ls)] : ls \in LineSeqs}
        \cup {[success |-> FALSE, output |-> <<>>]}


(***************************************************************************)
(* The command builder: download_video, lines 360-440                      *)
(***************************************************************************)
\* str(n) for n >= 0
RECURSIVE Str(_)
Str(n) == IF n < 10 THEN <<Digits[n + 1]>> ELSE Str(n \div 10) \o <<Digits[(n % 10) + 1]>>

EXTRACTOR_ARGS == <<"--extractor-args">>
YOUTUBE == <<"youtube">>
PLAYER_CLIENT == YOUTUBE \o <<":player-client=">>
FORMATS_DUPLICATE == YOUTUBE \o <<":formats=duplicate">>
POT_HTTP_BASE_URL == YOUTUBE \o <<"pot-bgutilhttp:base_url=">>
POT_SCRIPT_PATH == YOUTUBE \o <<"pot-bgutilscript:script_path=">>
SEMICOLON == <<";">>

\* Lines 361-372
BaseFlags(cookies_browser, format_selector, output_dir) ==
    << <<"yt-dlp">>,
       <<"--cookies-from-browser">>, cookies_browser,
       <<"-f">>, format_selector,
       <<"--write-auto-sub">>,
       <<"--sub-lang">>, <<"en.*">>,
       <<"--convert-subs">>, <<"srt">>,
       <<"--ignore-errors">>,
       <<"-P">>, output_dir,
       <<"--no-mtime">>,
       <<"--embed-metadata">> >>

\* Lines 375-376
AddChapters(cmd, p) ==
    IF p.embed_chapters THEN Append(cmd, <<"--embed-chapters">>) ELSE cmd

\* Lines 379-385
AddSponsorBlock(cmd, platform, p) ==
    IF platform = "youtube"
    THEN LET marked == IF TruthyStr(p.sponsorblock_mark)
                       THEN cmd \o << <<"--sponsorblock-mark">>, p.sponsorblock_mark[1] >>
                       ELSE cmd
         IN IF TruthyStr(p.sponsorblock_remove)
            THEN marked \o << <<"--sponsorblock-remove">>, p.sponsorblock_remove[1] >>
            ELSE marked
    ELSE cmd

\* Lines 388-390
AddSleepInterval(cmd, p) ==
    IF TruthyInt(p.sleep_interval)
    THEN cmd \o << <<"--sleep-interval">>, Str(p.sleep_interval[1]) >>
    ELSE cmd

\* Lines 395-397
AddPlayerClient(cmd, p) ==
    IF TruthyStr(p.youtube_client)
    THEN cmd \o <<EXTRACTOR_ARGS, PLAYER_CLIENT \o p.youtube_client[1]>>
    ELSE cmd

\* Lines 400-411
AddFormats(cmd, p) ==
    IF ~p.try_sabr THEN cmd
    ELSE IF \E i \in 1..Len(cmd) : StartsWith(cmd[i], EXTRACTOR_ARGS)
         THEN IF \E i \in 1..Len(cmd) : StartsWith(cmd[i], PLAYER_CLIENT)
              THEN LET i == CHOOSE k \in 1..Len(cmd) :
                                /\ StartsWith(cmd[k], PLAYER_CLIENT)
                                /\ \A m \in 1..(k - 1) : ~StartsWith(cmd[m], PLAYER_CLIENT)
                   IN [cmd EXCEPT ![i] = cmd[i] \o SEMICOLON \o FORMATS_DUPLICATE]
              ELSE cmd
         ELSE cmd \o <<EXTRACTOR_ARGS, FORMATS_DUPLICATE>>

\* Lines 414-420
PotArgs(p) ==
    (IF TruthyStr(p.pot_provider_url)
     THEN <<POT_HTTP_BASE_URL \o p.pot_provider_url[1]>> ELSE <<>>)
    \o
    (IF TruthyStr(p.pot_provider_script)
     THEN <<POT_SCRIPT_PATH \o p.pot_provider_script[1]>> ELSE <<>>)

\* Lines 424-428: the index of the value of the first --extractor-args flag
\* whose value mentions youtube, or None
ExistingYtArgs(cmd) ==
    LET Hit(i) == i > 1 /\ cmd[i - 1] = EXTRACTOR_ARGS /\ Contains(cmd[i], YOUTUBE) IN
    IF \E i \in 1..Len(cmd) : Hit(i)
    THEN Some(CHOOSE i \in 1..Len(cmd) : Hit(i) /\ \A m \in 1..(i - 1) : ~Hit(m))
    ELSE None

\* Lines 430-436: the for loop over pot_args, from pot_args[k] on.  The
\* index found before the loop is used throughout.
RECURSIVE AppendPotArgs(_, _, _, _)
AppendPotArgs(cmd, pot_args, k, existing_yt_args) ==
    IF k > Len(pot_args) THEN cmd
    ELSE IF existing_yt_args # None
         THEN AppendPotArgs(
                  [cmd EXCEPT ![existing_yt_args[1]] =
                       cmd[existing_yt_args[1]] \o SEMICOLON \o pot_args[k]],
                  pot_args, k + 1, existing_yt_args)
         ELSE AppendPotArgs(cmd \o <<EXTRACTOR_ARGS, pot_args[k]>>,
                  pot_args, k + 1, existing_yt_args)

\* Lines 414-436
AddPotProvider(cmd, p) ==
    IF PotArgs(p) # <<>>
    THEN AppendPotArgs(cmd, PotArgs(p), 1, ExistingYtArgs(cmd))
    ELSE cmd

\* Extractor arguments added whatever the platform
AddYoutubeArgsUngated(cmd, platform, p) ==
    AddPotProvider(AddFormats(AddPlayerClient(cmd, p), p), p)

\* Lines 393-436
AddYoutubeArgs(cmd, platform, p) ==
    IF platform = "youtube"
    THEN AddPotProvider(AddFormats(AddPlayerClient(cmd, p), p), p)
    ELSE cmd

\* A builder that adds the rate-limit flag for youtube only
BuildBaseSleepGated(cookies_browser, p, platform, format_selector, output_dir) ==
    AddYoutubeArgs(
        (IF platform = "youtube"
         THEN AddSleepInterval(
                  AddSponsorBlock(
                      AddChapters(BaseFlags(cookies_browser, format_selector, output_dir), p),
                      platform, p),
                  p)
         ELSE AddSponsorBlock(
                  AddChapters(BaseFlags(cookies_browser, format_selector, output_dir), p),
                  platform, p)),
        platform, p)

\* base_cmd before the pass-through arguments are appended (lines 361-436)
BuildBase(cookies_browser, p, platform, format_selector, output_dir) ==
    AddYoutubeArgs(
        AddSleepInterval(
            AddSponsorBlock(
                AddChapters(BaseFlags(cookies_browser, format_selector, output_dir), p),
                platform, p),
            p),
        platform, p)

\* A builder that keeps base_cmd between calls and extends the list the
\* previous build left
BuildCommandShared(cookies_browser, p, platform, format_selector, output_dir) ==
    (IF pc = "returned" THEN res.cmd ELSE <<>>)
        \o BuildBase(cookies_browser, p, platform, format_selector, output_dir)
        \o p.extra_args \o <<p.url>>

\* base_cmd as executed (lines 361-440)
BuildCommand(cookies_browser, p, platform, format_selector, output_dir) ==
    BuildBase(cookies_browser, p, platform, format_selector, output_dir)
        \o p.extra_args \o <<p.url>>

(***************************************************************************)
(* The format selector download_video resolves (lines 340-348)             *)
(***************************************************************************)
\* Whether the format listing is queried (line 341)
ChecksPremium(p, platform) ==
    platform = "youtube" /\ p.prefer_premium /\ ~TruthyStr(p.format_selector)

\* format_selector after line 348, q being what _run_command returned for
\* the -F query (read only when ChecksPremium holds)
ResolveFormat(p, platform, q) ==
    LET premium_format == check_premium_formats(q.success, q.output)
        chosen == IF ChecksPremium(p, platform) /\ TruthyStr(premium_format)
                  THEN premium_format ELSE p.format_selector
    IN IF chosen = None THEN DEFAULT_FORMAT_SELECTOR ELSE chosen[1]

(***************************************************************************)
(* get_video_info and create_output_dir (lines 227-274, 350-357)           *)
(***************************************************************************)
TITLE_VIDEO == <<"v","i","d","e","o">>
TITLE_A == <<" ","A","/","b","?">>
DATE_A == <<"2","0","2","4","0","1","3","1">>
TITLE_LIMIT == 100
FORBIDDEN == {"\\", "/", ":", "*", "?", "\"", "<", ">", "|"}
VIDEO == TITLE_VIDEO
NOW_FMT == <<"2026.11.03">>
DOWNLOADS == <<"~/Downloads/">>

\* re.sub(r'[\\/:*?\"<>|]', '', title)
RECURSIVE RemoveForbidden(_)
RemoveForbidden(s) ==
    IF s = <<>> THEN <<>>
    ELSE IF s[1] \in FORBIDDEN THEN RemoveForbidden(Tail(s))
    ELSE <<s[1]>> \o RemoveForbidden(Tail(s))

\* s.strip()
RECURSIVE Strip(_)
Strip(s) ==
    IF s # <<>> /\ IsSpace(s[1]) THEN Strip(Tail(s))
    ELSE IF s # <<>> /\ IsSpace(s[Len(s)]) THEN Strip(SubSeq(s, 1, Len(s) - 1))
    ELSE s

\* s[:n]
Truncate(s, n) == SubSeq(s, 1, IF Len(s) < n THEN Len(s) ELSE n)

\* datetime.strptime(date_str, '%Y%m%d') succeeds: eight digits naming a
\* month 01-12 and a day 01-31 (days per month are not modelled)
ValidDate(d) ==
    /\ Len(d) = 8
    /\ \A i \in 1..8 : IsDigit(d[i])
    /\ ParseInt(SubSeq(d, 5, 6)) \in 1..12
    /\ ParseInt(SubSeq(d, 7, 8)) \in 1..31

\* Lines 253-260
DateFmt(date_str) ==
    IF TruthyStr(date_str) /\ ValidDate(date_str[1])
    THEN SubSeq(date_str[1], 1, 4) \o <<".">> \o SubSeq(date_str[1], 5, 6)
             \o <<".">> \o SubSeq(date_str[1], 7, 8)
    ELSE NOW_FMT

\* Lines 263-267: the directory create_output_dir names
OutputDirName(title, date_str) ==
    DOWNLOADS \o DateFmt(date_str) \o <<" - ">>
        \o Truncate(Strip(RemoveForbidden(title)), TITLE_LIMIT)

\* info.get(key): info is a record whose absent keys hold None
\* Lines 355-357: the directory download_video asks for
OutputDirFor(info) ==
    LET title == IF info.title # None THEN info.title[1] ELSE VIDEO
        date_str == IF TruthyStr(info.upload_date) THEN info.upload_date
                    ELSE info.release_date
    IN OutputDirName(title, date_str)

\* What get_video_info can return: {} when the -j query fails or its
\* output does not parse, else the parsed mapping
EMPTY_INFO == [title |-> None, upload_date |-> None, release_date |-> None]
InfoResults ==
    {EMPTY_INFO,
     [title |-> Some(TITLE_A), upload_date |-> Some(DATE_A), release_date |-> None]}

(***************************************************************************)
(* The advisory probes (lines 94-204, 334-338)                             *)
(***************************************************************************)
\* What shutil.which finds for the JavaScript runtimes, what the
\* `pip show` child process does, what the connection to the token server
\* does
RuntimeOutcomes == {"deno", "none"}
PluginOutcomes == {"installed", "missing", "error", "timeout"}
ServerOutcomes == {"open", "refused", "error", "timeout"}

\* _check_javascript_runtime: the runtime found, or None
CheckJavascriptRuntime(runtime) ==
    IF runtime = "none" THEN None ELSE Some(<<runtime>>)

\* _check_pot_plugin_installed: True on exit code 0, False otherwise and on
\* every exception
CheckPotPluginInstalled(plugin) == plugin = "installed"

\* _check_pot_server_running: True when connect_ex returns 0
CheckPotServerRunning(server) == server = "open"

\* A probe that lets a timeout of its child process or socket out
ProbeRaisesOnTimeout(outcome) == outcome = "timeout"

\* Lines 130 and 145: `except (..., Exception)` catches whatever the probe
\* raises, so no outcome leaves it as an exception
ProbeRaises(outcome) == FALSE

\* Whether _validate_youtube_requirements or _validate_pot_provider ends in
\* an exception: the probes run for youtube only, the server probe only
\* when the plugin is installed and the mode is not script
ProbesAbort(platform, pot_provider_mode, runtime, plugin, server) ==
    /\ platform = "youtube"
    /\ \/ ProbeRaises(runtime)
       \/ ProbeRaises(plugin)
       \/ /\ CheckPotPluginInstalled(plugin)
          /\ pot_provider_mode # Some(<<"script">>)
          /\ ProbeRaises(server)

\* _validate_pot_provider: its result, None on every path
ValidatePotProvider(platform, pot_provider_mode, plugin, server) ==
    IF platform # "youtube" THEN None
    ELSE IF ~CheckPotPluginInstalled(plugin) THEN None
    ELSE IF pot_provider_mode = Some(<<"script">>) THEN None
    ELSE IF CheckPotServerRunning(server) THEN None
    ELSE None

(***************************************************************************)
(* Failure classification (lines 448-497)                                  *)
(***************************************************************************)
PO_TOKEN == <<"PO Token">>
PO_TOKEN_LC == <<"po_token">>
REQUIRES_GVS_PO_TOKEN == <<"require", "s", " a GVS ", "PO Token">>
WEB_CLIENT_HTTPS == <<"web client https formats ", "require", " a GVS ", "PO Token">>
FORCING_SABR == <<"YouTube is forcing SABR streaming">>
ONLY_SABR == <<"only SABR formats">>

PO_TOKEN_PHRASES == {PO_TOKEN, PO_TOKEN_LC, REQUIRES_GVS_PO_TOKEN}
SABR_PHRASES == {WEB_CLIENT_HTTPS, FORCING_SABR, ONLY_SABR}

\* What the downloader can write to its error stream when it fails
Diagnostics ==
    { <<>>,
      <<"ERROR: ", "Video unavailable">>,
      <<"ERROR: ", "android client https formats ">> \o REQUIRES_GVS_PO_TOKEN,
      <<"WARNING: ">> \o WEB_CLIENT_HTTPS,
      <<"WARNING: ">> \o FORCING_SABR }

\* e.stderr once the downloader's error stream is piped to the wrapper
StderrCaptured(diag) == Some(diag)

\* e.stderr of the CalledProcessError of line 445: subprocess.run is given
\* neither capture_output nor stderr, so the child writes to the terminal
\* and the exception carries None
CalledProcessErrorStderr(diag) == None

\* Line 449
ErrorOutput(diag) ==
    LET stderr == CalledProcessErrorStderr(diag) IN
    IF TruthyStr(stderr) THEN stderr[1] ELSE <<>>

\* Lines 453-454
PoTokenError(platform, error_output) ==
    platform = "youtube" /\ \E phrase \in PO_TOKEN_PHRASES : Contains(error_output, phrase)

\* Lines 488-491
SabrRelated(platform, error_output) ==
    platform = "youtube" /\ \E phrase \in SABR_PHRASES : Contains(error_output, phrase)

\* A retry decision that forgets the platform test
TriesFallbackAnyPlatform(platform, p, sabr_related) ==
    p.try_fallback_clients /\ (sabr_related \/ ~TruthyStr(p.youtube_client))

\* A retry decision that forgets which client was asked for
TriesFallbackAnyClient(platform, p, sabr_related) ==
    platform = "youtube" /\ p.try_fallback_clients

\* Line 497
TriesFallback(platform, p, sabr_related) ==
    platform = "youtube" /\ p.try_fallback_clients
        /\ (sabr_related \/ ~TruthyStr(p.youtube_client))

\* Line 498: [c for c in YOUTUBE_CLIENTS if c != youtube_client]
RECURSIVE ClientsExcept(_, _)
ClientsExcept(clients, youtube_client) ==
    IF clients = <<>> THEN <<>>
    ELSE IF Some(clients[1]) # youtube_client
         THEN <<clients[1]>> \o ClientsExcept(Tail(clients), youtube_client)
         ELSE ClientsExcept(Tail(clients), youtube_client)

\* A client list that takes web for the client of a call that names none
AvailableClientsDefaultWeb(p) ==
    ClientsExcept(YOUTUBE_CLIENTS,
        IF TruthyStr(p.youtube_client) THEN p.youtube_client ELSE Some(<<"web">>))

\* A client list that gives up after the first two remaining clients
AvailableClientsFirstTwo(p) ==
    SubSeq(ClientsExcept(YOUTUBE_CLIENTS, p.youtube_client), 1, 2)

AvailableClients(p) == ClientsExcept(YOUTUBE_CLIENTS, p.youtube_client)

\* Lines 503, 526: [arg for arg in extra_args if "--extractor-args" not in arg]
RECURSIVE FilteredArgs(_)
FilteredArgs(extra_args) ==
    IF extra_args = <<>> THEN <<>>
    ELSE IF ~Contains(extra_args[1], EXTRACTOR_ARGS)
         THEN <<extra_args[1]>> \o FilteredArgs(Tail(extra_args))
         ELSE FilteredArgs(Tail(extra_args))

(***************************************************************************)
(* Calls of download_video                                                 *)
(***************************************************************************)
\* The call of main (lines 605-620)
MainCall(r) ==
    [url |-> r.url,
     extra_args |-> r.extra_args,
     format_selector |-> r.format,
     youtube_client |-> r.youtube_client,
     try_sabr |-> r.enable_sabr,
     try_fallback_clients |-> ~r.no_fallback,
     prefer_premium |-> ~r.no_premium,
     sponsorblock_mark |-> r.sponsorblock_mark,
     sponsorblock_remove |-> r.sponsorblock_remove,
     embed_chapters |-> r.embed_chapters,
     sleep_interval |-> r.sleep_interval,
     pot_provider_mode |-> r.pot_provider_mode,
     pot_provider_url |-> r.pot_provider_url,
     pot_provider_script |-> r.pot_provider_script]

\* A fallback call that hands its own fallback setting on
FallbackCallKeepsFallback(f, client) ==
    [url |-> f.p.url,
     extra_args |-> FilteredArgs(f.p.extra_args),
     format_selector |-> Some(f.format_selector),
     youtube_client |-> Some(client),
     try_sabr |-> FALSE,
     try_fallback_clients |-> f.p.try_fallback_clients,
     prefer_premium |-> TRUE,
     sponsorblock_mark |-> f.p.sponsorblock_mark,
     sponsorblock_remove |-> f.p.sponsorblock_remove,
     embed_chapters |-> f.p.embed_chapters,
     sleep_interval |-> f.p.sleep_interval,
     pot_provider_mode |-> f.p.pot_provider_mode,
     pot_provider_url |-> f.p.pot_provider_url,
     pot_provider_script |-> f.p.pot_provider_script]

\* The call of lines 506-520, made by frame f for `client`; prefer_premium
\* is not passed and takes its default
FallbackCall(f, client) ==
    [url |-> f.p.url,
     extra_args |-> FilteredArgs(f.p.extra_args),
     format_selector |-> Some(f.format_selector),
     youtube_client |-> Some(client),
     try_sabr |-> FALSE,
     try_fallback_clients |-> FALSE,
     prefer_premium |-> TRUE,
     sponsorblock_mark |-> f.p.sponsorblock_mark,
     sponsorblock_remove |-> f.p.sponsorblock_remove,
     embed_chapters |-> f.p.embed_chapters,
     sleep_interval |-> f.p.sleep_interval,
     pot_provider_mode |-> f.p.pot_provider_mode,
     pot_provider_url |-> f.p.pot_provider_url,
     pot_provider_script |-> f.p.pot_provider_script]

\* The call of lines 528-542
SabrCall(f) ==
    [url |-> f.p.url,
     extra_args |-> FilteredArgs(f.p.extra_args),
     format_selector |-> Some(f.format_selector),
     youtube_client |-> IF TruthyStr(f.p.youtube_client)
                        THEN f.p.youtube_client ELSE Some(<<"web">>),
     try_sabr |-> TRUE,
     try_fallback_clients |-> FALSE,
     prefer_premium |-> TRUE,
     sponsorblock_mark |-> f.p.sponsorblock_mark,
     sponsorblock_remove |-> f.p.sponsorblock_remove,
     embed_chapters |-> f.p.embed_chapters,
     sleep_interval |-> f.p.sleep_interval,
     pot_provider_mode |-> f.p.pot_provider_mode,
     pot_provider_url |-> f.p.pot_provider_url,
     pot_provider_script |-> f.p.pot_provider_script]

\* The activation record of a call with parameters p, at its first line
NewFrame(p) ==
    [p |-> p,
     at |-> "prepare",
     platform |-> "other",
     format_selector |-> <<>>,
     output_dir |-> <<>>,
     base_cmd |-> <<>>,
     diag |-> <<>>,
     error_output |-> <<>>,
     po_token_error |-> FALSE,
     sabr_related |-> FALSE,
     available_clients |-> <<>>,
     next_client |-> 1,
     returned |-> FALSE]

Top == stack[Len(stack)]
SetTop(f) == [stack EXCEPT ![Len(stack)] = f]
Running(at) == pc = "running" /\ stack # <<>> /\ Top.at = at

\* An exit status that ignores the result
ExitStatusAlwaysZero(success) == 0

\* Line 622: sys.exit(0 if success else 1)
ExitStatus(success) == IF success THEN 0 ELSE 1

\* A return whose value the waiting caller does not get: it reads False
ReturnValueDropped(value) ==
    IF Len(stack) = 1
    THEN /\ stack' = <<>>
         /\ pc' = "exited"
         /\ exit_code' = Some(ExitStatus(value))
    ELSE LET caller == stack[Len(stack) - 1]
             resumed == [caller EXCEPT
                            !.returned = FALSE,
                            !.at = IF caller.at = "fallback_call"
                                   THEN "fallback_returned" ELSE "sabr_returned"]
         IN /\ stack' = Append(SubSeq(stack, 1, Len(stack) - 2), resumed)
            /\ UNCHANGED <<pc, exit_code>>

\* A return after which the waiting caller is never resumed
ReturnCallerNotResumed(value) ==
    IF Len(stack) = 1
    THEN /\ stack' = <<>>
         /\ pc' = "exited"
         /\ exit_code' = Some(ExitStatus(value))
    ELSE LET caller == stack[Len(stack) - 1]
             waiting == [caller EXCEPT !.returned = value]
         IN /\ stack' = Append(SubSeq(stack, 1, Len(stack) - 2), waiting)
            /\ UNCHANGED <<pc, exit_code>>

\* The innermost call returns `value`: to main, which exits (line 622), or
\* to the call below it, which is waiting at line 506 or 528.
Return(value) ==
    IF Len(stack) = 1
    THEN /\ stack' = <<>>
         /\ pc' = "exited"
         /\ exit_code' = Some(ExitStatus(value))
    ELSE LET caller == stack[Len(stack) - 1]
             resumed == [caller EXCEPT
                            !.returned = value,
                            !.at = IF caller.at = "fallback_call"
                                   THEN "fallback_returned" ELSE "sabr_returned"]
         IN /\ stack' = Append(SubSeq(stack, 1, Len(stack) - 2), resumed)
            /\ UNCHANGED <<pc, exit_code>>

\* An exception main catches (lines 624-632) unwinds every call
Raise ==
    /\ stack' = <<>>
    /\ pc' = "exited"
    /\ exit_code' = Some(1)

(***************************************************************************)
(* Command lines and environments the orchestrator is run on               *)
(***************************************************************************)
URL_YOUTUBE == <<"h","t","t","p","s",":","/","/","Y","o","u","T","u",".","b","e","/","a","b","c","1","2","3">>
URL_X == <<"h","t","t","p","s",":","/","/","x",".","c","o","m","/","u","s","e","r","/","s","t","a","t","u","s","/","1">>
URL_OTHER == <<"h","t","t","p","s",":","/","/","v","i","m","e","o",".","c","o","m","/","1">>
MainUrls == {URL_YOUTUBE, URL_X, URL_OTHER}

COOKIES_BROWSER == <<"firefox">>
EXTRA_TWO_TOKEN == << EXTRACTOR_ARGS, PLAYER_CLIENT \o <<"tv">>, <<"--no-playlist">> >>
EXTRA_ONE_TOKEN == << EXTRACTOR_ARGS \o <<"=">> \o FORMATS_DUPLICATE >>

ClientChoices == {None, Some(<<"web">>), Some(<<"android">>)}
FormatChoices == {None, Some(<<>>), Some(<<"best[height<=720]">>)}

\* The options that only shape the command
PlainOptions ==
    [sponsorblock_mark |-> None, sponsorblock_remove |-> None,
     embed_chapters |-> FALSE, sleep_interval |-> None,
     pot_provider_mode |-> None, pot_provider_url |-> None,
     pot_provider_script |-> None, extra_args |-> <<>>]

FullOptions ==
    [sponsorblock_mark |-> Some(<<"all">>), sponsorblock_remove |-> Some(<<"sponsor">>),
     embed_chapters |-> TRUE, sleep_interval |-> Some(5),
     pot_provider_mode |-> Some(<<"script">>),
     pot_provider_url |-> Some(<<"http://127.0.0.1:4416">>),
     pot_provider_script |-> Some(<<"/opt/bgutil/generate_once.js">>),
     extra_args |-> EXTRA_TWO_TOKEN]

MixedOptions ==
    [sponsorblock_mark |-> None, sponsorblock_remove |-> Some(<<"sponsor">>),
     embed_chapters |-> FALSE, sleep_interval |-> Some(0),
     pot_provider_mode |-> Some(<<"http">>),
     pot_provider_url |-> Some(<<"http://127.0.0.1:4416">>),
     pot_provider_script |-> None,
     extra_args |-> EXTRA_ONE_TOKEN]

OptionSets == {PlainOptions, FullOptions, MixedOptions}

MakeRequest(url, client, sabr, no_fallback, format, no_premium, o) ==
    [url |-> url, format |-> format, browser |-> COOKIES_BROWSER,
     youtube_client |-> client, enable_sabr |-> sabr,
     no_fallback |-> no_fallback, no_premium |-> no_premium,
     sponsorblock_mark |-> o.sponsorblock_mark,
     sponsorblock_remove |-> o.sponsorblock_remove,
     embed_chapters |-> o.embed_chapters,
     sleep_interval |-> o.sleep_interval,
     pot_provider_mode |-> o.pot_provider_mode,
     pot_provider_url |-> o.pot_provider_url,
     pot_provider_script |-> o.pot_provider_script,
     extra_args |-> o.extra_args]

Requests ==
    {MakeRequest(u, c, s, nf, f, np, o) :
        u \in MainUrls, c \in ClientChoices, s \in BOOLEAN, nf \in BOOLEAN,
        f \in FormatChoices, np \in BOOLEAN, o \in OptionSets}

Environments == [python_ok : BOOLEAN, ytdlp_found : BOOLEAN]

\* What the -F query can return to a run of the orchestrator
MainListings ==
    {[success |-> FALSE, output |-> <<>>],
     [success |-> TRUE, output |-> JoinLines(<<LINE_PLAIN, LINE_720, LINE_1080>>)],
     [success |-> TRUE, output |-> JoinLines(<<LINE_PLAIN, LINE_NORES>>)]}

NoRequest == MakeRequest(<<>>, None, FALSE, FALSE, None, FALSE, PlainOptions)

(***************************************************************************)
(* main and download_video, step by step                                   *)
(***************************************************************************)
Init ==
    /\ pc = "start"
    /\ env \in Environments
    /\ request \in Requests
    /\ stack = <<>>
    /\ attempts = <<>>
    /\ lastOutcome = "none"
    /\ dirsUsed = {}
    /\ exit_code = None
    /\ arg = <<>>
    /\ res = <<>>

\* A dependency check that does not look for yt-dlp
DependenciesOkPythonOnly(e) == e.python_ok

\* Lines 66-78
DependenciesOk(e) == e.python_ok /\ e.ytdlp_found

\* Lines 603-620: construct the downloader, then call download_video
MainStart ==
    /\ pc = "start"
    /\ IF DependenciesOk(env)
       THEN /\ pc' = "running"
            /\ stack' = <<NewFrame(MainCall(request))>>
            /\ UNCHANGED exit_code
       ELSE Raise
    /\ UNCHANGED <<env, request, attempts, lastOutcome, dirsUsed, arg, res>>

\* Lines 327-348: classify the URL, run the advisory probes (whose
\* results only choose log lines), resolve the format selector
Prepare ==
    /\ Running("prepare")
    /\ \E platform \in {detect_platform(Top.p.url)} :
       \E abort \in {ProbesAbort(platform, Top.p.pot_provider_mode, runtime, plugin, server) :
                         runtime \in RuntimeOutcomes, plugin \in PluginOutcomes,
                         server \in ServerOutcomes} :
       IF abort
       THEN Raise
       ELSE \E q \in IF ChecksPremium(Top.p, platform) THEN MainListings
                     ELSE {[success |-> FALSE, output |-> <<>>]} :
               /\ stack' = SetTop([Top EXCEPT
                                      !.platform = platform,
                                      !.format_selector = ResolveFormat(Top.p, platform, q),
                                      !.at = "locate"])
               /\ UNCHANGED <<pc, exit_code>>
    /\ UNCHANGED <<env, request, attempts, lastOutcome, dirsUsed, arg, res>>

\* Lines 350-358: query the metadata, create the output directory
Locate ==
    /\ Running("locate")
    /\ \E info \in InfoResults :
          stack' = SetTop([Top EXCEPT
                              !.output_dir = OutputDirFor(info),
                              !.at = "build"])
    /\ UNCHANGED <<pc, env, request, attempts, lastOutcome, dirsUsed, exit_code, arg, res>>

\* Lines 269-272: mkdir fails, create_output_dir raises YtDlpWrapperError
LocateFails ==
    /\ Running("locate")
    /\ Raise
    /\ UNCHANGED <<env, request, attempts, lastOutcome, dirsUsed, arg, res>>

\* Lines 360-440
Build ==
    /\ Running("build")
    /\ stack' = SetTop([Top EXCEPT
                           !.base_cmd = BuildCommand(request.browser, Top.p, Top.platform,
                                            Top.format_selector, Top.output_dir),
                           !.at = "execute"])
    /\ UNCHANGED <<pc, env, request, attempts, lastOutcome, dirsUsed, exit_code, arg, res>>

\* One execution of base_cmd (line 445), as the record of it
Attempt(f, depth) ==
    [youtube_client |-> f.p.youtube_client,
     try_sabr |-> f.p.try_sabr,
     try_fallback_clients |-> f.p.try_fallback_clients,
     depth |-> depth]

Issue(outcome) ==
    /\ attempts' = Append(attempts, Attempt(Top, Len(stack)))
    /\ dirsUsed' = dirsUsed \cup {Top.output_dir}
    /\ lastOutcome' = outcome

\* Lines 445-447: the downloader exits 0
ExecuteSucceeds ==
    /\ Running("execute")
    /\ Issue("ok")
    /\ Return(TRUE)
    /\ UNCHANGED <<env, request, arg, res>>

\* Lines 448-449: the downloader exits non-zero, having written diag
ExecuteFails ==
    /\ Running("execute")
    /\ Issue("failed")
    /\ \E diag \in Diagnostics :
          stack' = SetTop([Top EXCEPT
                              !.diag = diag,
                              !.error_output = ErrorOutput(diag),
                              !.at = "classify"])
    /\ UNCHANGED <<pc, env, request, exit_code, arg, res>>

\* A timeout handled like a non-zero exit: classified, then retried
ExecuteTimesOutAsFailure ==
    /\ Running("execute")
    /\ Issue("timeout")
    /\ stack' = SetTop([Top EXCEPT !.at = "classify"])
    /\ UNCHANGED <<pc, env, request, exit_code, arg, res>>

\* Lines 548-550: the downloader runs past the timeout
ExecuteTimesOut ==
    /\ Running("execute")
    /\ Issue("timeout")
    /\ Return(FALSE)
    /\ UNCHANGED <<env, request, arg, res>>

\* An interrupt caught inside download_video and turned into a False result
ExecuteInterruptedAsFailure ==
    /\ Running("execute")
    /\ Issue("interrupted")
    /\ Return(FALSE)
    /\ UNCHANGED <<env, request, arg, res>>

\* Lines 627-629: KeyboardInterrupt during the download reaches main
ExecuteInterrupted ==
    /\ Running("execute")
    /\ Issue("interrupted")
    /\ Raise
    /\ UNCHANGED <<env, request, arg, res>>

\* Lines 451-498: classify the failure and decide whether to retry
Classify ==
    /\ Running("classify")
    /\ \E plugin_installed \in BOOLEAN :
       LET po_token_error == PoTokenError(Top.platform, Top.error_output)
           sabr_related == SabrRelated(Top.platform, Top.error_output)
           f == [Top EXCEPT !.po_token_error = po_token_error,
                            !.sabr_related = sabr_related]
       IN IF TriesFallback(Top.platform, Top.p, sabr_related)
          THEN /\ stack' = SetTop([f EXCEPT
                                      !.available_clients = AvailableClients(Top.p),
                                      !.next_client = 1,
                                      !.at = "fallback"])
               /\ UNCHANGED <<pc, exit_code>>
          ELSE Return(FALSE)
    /\ UNCHANGED <<env, request, attempts, lastOutcome, dirsUsed, arg, res>>

\* Lines 500-520: the loop calls download_video for the next client
CallFallbackClient ==
    /\ Running("fallback")
    /\ Top.next_client <= Len(Top.available_clients)
    /\ stack' = Append(SetTop([Top EXCEPT !.at = "fallback_call"]),
                       NewFrame(FallbackCall(Top, Top.available_clients[Top.next_client])))
    /\ UNCHANGED <<pc, env, request, attempts, lastOutcome, dirsUsed, exit_code, arg, res>>

\* Lines 506/521 and 528: the nested call returned.  In the loop True ends
\* it and False moves on to the next client; the SABR call's value is
\* returned as it is.
NestedCallReturned ==
    /\ Running("fallback_returned") \/ Running("sabr_returned")
    /\ IF Top.at = "sabr_returned"
       THEN Return(Top.returned)
       ELSE IF Top.returned
            THEN Return(TRUE)
            ELSE /\ stack' = SetTop([Top EXCEPT !.next_client = @ + 1, !.at = "fallback"])
                 /\ UNCHANGED <<pc, exit_code>>
    /\ UNCHANGED <<env, request, attempts, lastOutcome, dirsUsed, arg, res>>

\* Lines 523-547: the loop is over.  If SABR may be the only option, call
\* download_video once more with it enabled; else report the failure.
FallbackLoopOver ==
    /\ Running("fallback")
    /\ Top.next_client > Len(Top.available_clients)
    /\ IF Top.sabr_related /\ ~Top.p.try_sabr
       THEN /\ stack' = Append(SetTop([Top EXCEPT !.at = "sabr_call"]),
                               NewFrame(SabrCall(Top)))
            /\ UNCHANGED <<pc, exit_code>>
       ELSE Return(FALSE)
    /\ UNCHANGED <<env, request, attempts, lastOutcome, dirsUsed, arg, res>>

Next ==
    \/ MainStart
    \/ Prepare
    \/ Locate
    \/ LocateFails
    \/ Build
    \/ ExecuteSucceeds
    \/ ExecuteFails
    \/ ExecuteTimesOut
    \/ ExecuteInterrupted
    \/ Classify
    \/ CallFallbackClient
    \/ NestedCallReturned
    \/ FallbackLoopOver

Spec == Init /\ [][Next]_vars

\* The program is one sequential thread: whenever a step is possible one is
\* taken, every external process (query, probe, downloader) being assumed to
\* return or to hit its timeout
\* for the runs whose pass-through arguments and command-shaping options are
\* those of FullOptions (these options choose no branch of the retry logic)
\* and whose --format is absent or a selector
InitLive ==
    /\ Init
    /\ request.extra_args = FullOptions.extra_args
    /\ request.format # Some(<<>>)

SpecLive == InitLive /\ [][Next]_vars /\ WF_vars(Next)

(***************************************************************************)
(* The functions exercised on their own: one call each, its input drawn    *)
(* from a bounded set                                                      *)
(***************************************************************************)
Idle ==
    /\ env = [python_ok |-> TRUE, ytdlp_found |-> TRUE]
    /\ request = NoRequest
    /\ stack = <<>>
    /\ attempts = <<>>
    /\ lastOutcome = "none"
    /\ dirsUsed = {}
    /\ exit_code = None

idleVars == <<env, request, stack, attempts, lastOutcome, dirsUsed, exit_code>>

\* detect_platform(url)
InitPlatform == pc = "call" /\ arg \in Urls /\ res = <<>> /\ Idle

CallDetectPlatform ==
    /\ pc = "call"
    /\ res' = detect_platform(arg)
    /\ pc' = "returned"
    /\ UNCHANGED <<arg, idleVars>>

NextPlatform == CallDetectPlatform

SpecPlatform == InitPlatform /\ [][NextPlatform]_vars

\* Lines 340-348 of download_video, on what the -F query returned
InitFormats ==
    /\ pc = "call"
    /\ arg \in [url : MainUrls, format_selector : FormatChoices,
                prefer_premium : BOOLEAN, q : ListingResults]
    /\ res = <<>>
    /\ Idle

CallResolveFormat ==
    /\ pc = "call"
    /\ res' = ResolveFormat(arg, detect_platform(arg.url), arg.q)
    /\ pc' = "returned"
    /\ UNCHANGED <<arg, idleVars>>

NextFormats == CallResolveFormat

SpecFormats == InitFormats /\ [][NextFormats]_vars

\* Lines 360-440 of download_video
BuildInputs ==
    [url : MainUrls,
     youtube_client : ClientChoices,
     try_sabr : BOOLEAN,
     pot_provider_url : {None, Some(<<"http://127.0.0.1:4416">>)},
     pot_provider_script : {None, Some(<<"/opt/bgutil/generate_once.js">>)},
     sponsorblock_mark : {None, Some(<<"all">>)},
     sponsorblock_remove : {None, Some(<<"sponsor">>)},
     embed_chapters : BOOLEAN,
     sleep_interval : {None, Some(0), Some(5)},
     extra_args : {<<>>, EXTRA_TWO_TOKEN, EXTRA_ONE_TOKEN},
     resolved_format : {DEFAULT_FORMAT_SELECTOR, <<"1","3","7">> \o BESTAUDIO_BEST},
     output_dir : {OutputDirFor(EMPTY_INFO)}]

InitBuild == pc = "call" /\ arg \in BuildInputs /\ res = <<>> /\ Idle

CallBuild ==
    /\ pc = "call"
    /\ res' = [base |-> BuildBase(COOKIES_BROWSER, arg, detect_platform(arg.url),
                            arg.resolved_format, arg.output_dir),
               cmd |-> BuildCommand(COOKIES_BROWSER, arg, detect_platform(arg.url),
                            arg.resolved_format, arg.output_dir)]
    /\ pc' = "returned"
    /\ UNCHANGED <<arg, idleVars>>

\* The same build made a second time, from the same settings
CallBuildAgain ==
    /\ pc = "returned"
    /\ res' = [base |-> res.base,
               cmd |-> res.cmd,
               again |-> BuildCommand(COOKIES_BROWSER, arg, detect_platform(arg.url),
                             arg.resolved_format, arg.output_dir)]
    /\ pc' = "rebuilt"
    /\ UNCHANGED <<arg, idleVars>>

NextBuild == CallBuild \/ CallBuildAgain

SpecBuild == InitBuild /\ [][NextBuild]_vars

\* Lines 331-440 of download_video under given probe outcomes: whether the
\* call gets as far as its download attempt, what the probes returned, and
\* the command it builds
ProbeInputs ==
    [url : MainUrls,
     youtube_client : ClientChoices,
     pot_provider_mode : {None, Some(<<"http">>), Some(<<"script">>)},
     runtime : RuntimeOutcomes,
     plugin : PluginOutcomes,
     server : ServerOutcomes]

ProbedCall(a) ==
    [MainCall(MakeRequest(a.url, a.youtube_client, FALSE, FALSE, None, TRUE, FullOptions))
        EXCEPT !.pot_provider_mode = a.pot_provider_mode]

ProbedBuild(a) ==
    LET platform == detect_platform(a.url)
        abort == ProbesAbort(platform, a.pot_provider_mode, a.runtime, a.plugin, a.server)
    IN [issued |-> ~abort,
        runtime |-> CheckJavascriptRuntime(a.runtime),
        pot |-> ValidatePotProvider(platform, a.pot_provider_mode, a.plugin, a.server),
        cmd |-> IF abort THEN <<>>
                ELSE BuildCommand(COOKIES_BROWSER, ProbedCall(a), platform,
                         DEFAULT_FORMAT_SELECTOR, OutputDirFor(EMPTY_INFO))]

InitProbes == pc = "call" /\ arg \in ProbeInputs /\ res = <<>> /\ Idle

CallProbedBuild ==
    /\ pc = "call"
    /\ res' = ProbedBuild(arg)
    /\ pc' = "returned"
    /\ UNCHANGED <<arg, idleVars>>

NextProbes == CallProbedBuild

SpecProbes == InitProbes /\ [][NextProbes]_vars

(***************************************************************************)
(* Properties                                                              *)
(***************************************************************************)
FirstCall == stack[1]

\* C1: one invocation of download_video issues at most |YOUTUBE_CLIENTS| + 1
\* (= 8) download attempts, whatever the input and the attempts' outcomes.
C1_AttemptsBounded == Len(attempts) <= Len(YOUTUBE_CLIENTS) + 1

C1_Witness == pc = "exited" /\ Len(attempts) = Len(YOUTUBE_CLIENTS) + 1

\* The case of C2: a youtube URL, fallback enabled, no client named, and a
\* first attempt that failed writing "requires a GVS PO Token".
C2_Case ==
    /\ stack # <<>>
    /\ FirstCall.platform = "youtube"
    /\ FirstCall.p.try_fallback_clients
    /\ FirstCall.p.youtube_client = None
    /\ Contains(FirstCall.diag, REQUIRES_GVS_PO_TOKEN)

\* C2 as amended: in that case the second download attempt uses client web,
\* the first entry of YOUTUBE_CLIENTS (no entry is excluded when no client
\* was named), and if it exits 0 the call returns True and main exits 0.
C2_SecondAttemptWeb ==
    /\ C2_Case /\ Len(attempts) >= 2 => attempts[2].youtube_client = Some(<<"web">>)
    /\ C2_Case /\ Len(attempts) = 2 /\ lastOutcome = "ok" =>
           Len(stack) = 1 /\ FirstCall.at = "fallback_returned" /\ FirstCall.returned
    /\ pc = "exited" /\ Len(attempts) = 2 /\ lastOutcome = "ok" => exit_code = Some(0)

C2_Witness == C2_Case /\ Len(attempts) = 2 /\ lastOutcome = "ok"

\* C2 as stated: in that case the second download attempt uses client
\* android, and if it exits 0 the orchestrator returns success.
C2_SecondAttemptAndroid ==
    /\ C2_Case /\ Len(attempts) >= 2 => attempts[2].youtube_client = Some(<<"android">>)
    /\ C2_Case /\ Len(attempts) = 2 /\ lastOutcome = "ok" =>
           Len(stack) = 1 /\ FirstCall.at = "fallback_returned" /\ FirstCall.returned
    /\ pc = "exited" /\ Len(attempts) = 2 /\ lastOutcome = "ok" => exit_code = Some(0)

\* The --extractor-args flags of a command
ExtractorFlags(cmd) == {i \in 1..Len(cmd) : cmd[i] = EXTRACTOR_ARGS}

\* The clauses a request activates, in the order the builder adds them
ActiveClauses(a) ==
    (IF a.youtube_client # None THEN <<PLAYER_CLIENT \o a.youtube_client[1]>> ELSE <<>>)
    \o (IF a.try_sabr THEN <<FORMATS_DUPLICATE>> ELSE <<>>)
    \o (IF a.pot_provider_url # None
        THEN <<POT_HTTP_BASE_URL \o a.pot_provider_url[1]>> ELSE <<>>)
    \o (IF a.pot_provider_script # None
        THEN <<POT_SCRIPT_PATH \o a.pot_provider_script[1]>> ELSE <<>>)

\* ';'.join(clauses)
RECURSIVE JoinClauses(_)
JoinClauses(clauses) ==
    IF clauses = <<>> THEN <<>>
    ELSE IF Len(clauses) = 1 THEN clauses[1]
    ELSE clauses[1] \o SEMICOLON \o JoinClauses(Tail(clauses))

\* C3: for every youtube request and every combination of client profile,
\* streaming-mode toggle, token-provider URL and token-provider script, the
\* command built before the pass-through arguments holds at most one
\* --extractor-args flag, whose value is all active clauses joined by ';'.
C3_OneExtractorArgs ==
    pc = "returned" /\ detect_platform(arg.url) = "youtube" =>
        /\ Cardinality(ExtractorFlags(res.base)) <= 1
        /\ \A i \in ExtractorFlags(res.base) :
               i < Len(res.base) /\ res.base[i + 1] = JoinClauses(ActiveClauses(arg))
        /\ ActiveClauses(arg) # <<>> => ExtractorFlags(res.base) # {}

\* The calls of download_video that have classified a failed attempt and
\* gone on to retry
Classified(f) ==
    f.at \in {"fallback", "fallback_call", "fallback_returned", "sabr_call", "sabr_returned"}

\* C4: a failed attempt on a youtube URL is classified from the text the
\* downloader wrote to its error stream: token_required when it holds a
\* token-requirement marker, streaming_restricted when it holds a
\* streaming-restriction marker.
C4_ClassifiedFromDiagnostics ==
    \A k \in 1..Len(stack) :
        Classified(stack[k]) /\ stack[k].platform = "youtube" =>
            /\ stack[k].po_token_error =
                   (\E phrase \in PO_TOKEN_PHRASES : Contains(stack[k].diag, phrase))
            /\ stack[k].sabr_related =
                   (\E phrase \in SABR_PHRASES : Contains(stack[k].diag, phrase))

\* C5: for a URL classified x or other an invocation never issues a second
\* download attempt and never makes a nested call, whatever the settings
\* and the attempt's outcome; it ends without any attempt only by aborting
\* with exit code 1.
C5_NoRetryOffYoutube ==
    detect_platform(request.url) \in {"x", "other"} =>
        /\ Len(attempts) <= 1
        /\ Len(stack) <= 1
        /\ \A k \in 1..Len(stack) : ~Classified(stack[k])
        /\ pc = "exited" /\ attempts = <<>> => exit_code = Some(1)
        /\ pc = "exited" /\ exit_code = Some(0) => Len(attempts) = 1

C5_Witness ==
    /\ pc = "exited"
    /\ detect_platform(request.url) \in {"x", "other"}
    /\ ~request.no_fallback
    /\ request.youtube_client = None
    /\ lastOutcome = "failed"
    /\ Len(attempts) = 1

\* C6: for a URL not classified youtube the command built before the
\* pass-through arguments holds no --extractor-args flag, no player-client,
\* formats=duplicate or token-provider clause, and no sponsorblock flag.
C6_PlatformGating ==
    pc = "returned" /\ detect_platform(arg.url) # "youtube" =>
        \A i \in 1..Len(res.base) :
            /\ res.base[i] # EXTRACTOR_ARGS
            /\ ~Contains(res.base[i], <<":player-client=">>)
            /\ ~Contains(res.base[i], <<":formats=duplicate">>)
            /\ ~Contains(res.base[i], <<"pot-bgutilhttp:base_url=">>)
            /\ ~Contains(res.base[i], <<"pot-bgutilscript:script_path=">>)
            /\ res.base[i] # <<"--sponsorblock-mark">>
            /\ res.base[i] # <<"--sponsorblock-remove">>

C6_Witness ==
    /\ pc = "returned"
    /\ detect_platform(arg.url) = "x"
    /\ arg.youtube_client # None
    /\ arg.try_sabr
    /\ arg.pot_provider_url # None
    /\ arg.pot_provider_script # None
    /\ arg.sponsorblock_mark # None
    /\ arg.sponsorblock_remove # None

\* C7: when the dependency check fails (yt-dlp not on the path, or the
\* Python version too old) no call of download_video is made, so no
\* download attempt and no metadata or format query, and main exits 1.
C7_DependencyFailureAborts ==
    ~(env.python_ok /\ env.ytdlp_found) =>
        /\ pc \in {"start", "exited"}
        /\ stack = <<>>
        /\ attempts = <<>>
        /\ dirsUsed = {}
        /\ pc = "exited" => exit_code = Some(1)

C7_Witness == pc = "exited" /\ env.python_ok /\ ~env.ytdlp_found /\ exit_code = Some(1)

\* C8: the process exit code is 0 exactly when the last download attempt
\* exited with code zero, and 1 in every other outcome.
C8_ExitCode ==
    pc = "exited" =>
        /\ exit_code \in {Some(0), Some(1)}
        /\ exit_code = Some(0) <=> (attempts # <<>> /\ lastOutcome = "ok")

C8_Witness == pc = "exited" /\ exit_code = Some(0) /\ Len(attempts) >= 2

\* The listing's Premium-marked entries with a numeric identifier
PremiumEntries(lines) ==
    {i \in 1..Len(lines) : Contains(lines[i], PREMIUM) /\ LeadingId(lines[i]) # None}

\* The resolution height a listing line states, 0 when it states none
EntryHeight(line) == IF ResHeight(line) # None THEN ParseInt(ResHeight(line)[1]) ELSE 0

\* C9: for a youtube URL with no explicit format selector and premium
\* preference on, the resolved selector is "<id>+bestaudio/best" for the
\* Premium-marked numeric entry of greatest height whenever the listing
\* holds such an entry, and the default selector chain exactly when it
\* holds none or the query fails.
C9_PremiumSelected ==
    (/\ pc = "returned"
     /\ detect_platform(arg.url) = "youtube"
     /\ arg.format_selector = None
     /\ arg.prefer_premium) =>
        LET lines == Split(arg.q.output)
            entries == IF arg.q.success THEN PremiumEntries(lines) ELSE {}
        IN /\ entries # {} =>
                  \E i \in entries :
                      /\ \A j \in entries : EntryHeight(lines[j]) <= EntryHeight(lines[i])
                      /\ res = LeadingId(lines[i])[1] \o BESTAUDIO_BEST
           /\ (res = DEFAULT_FORMAT_SELECTOR) <=> (entries = {})

\* C10: detect_platform returns youtube when the lower-cased URL contains
\* "youtube.com" or "youtu.be", otherwise x when it contains "twitter.com"
\* or "x.com", otherwise other; every re-casing of the URL gets the same
\* result.
C10_PlatformTable ==
    pc = "returned" =>
        /\ res = IF Contains(Lower(arg), YOUTUBE_COM) \/ Contains(Lower(arg), YOUTU_BE)
                 THEN "youtube"
                 ELSE IF Contains(Lower(arg), TWITTER_COM) \/ Contains(Lower(arg), X_COM)
                      THEN "x"
                      ELSE "other"
        /\ \A u \in Recasings(arg) : detect_platform(u) = res

C10_Witness ==
    /\ pc = "returned"
    /\ arg # Lower(arg)
    /\ Contains(Lower(arg), X_COM)
    /\ Contains(Lower(arg), YOUTU_BE)
    /\ res = "youtube"

\* The part of a URL before its query string (before the first "?")
WithoutQuery(url) ==
    IF \E i \in 1..Len(url) : url[i] = "?"
    THEN LET i == CHOOSE k \in 1..Len(url) :
                      url[k] = "?" /\ \A m \in 1..(k - 1) : url[m] # "?"
         IN SubSeq(url, 1, i - 1)
    ELSE url

\* The domain fragments the table recognizes
RecognizedFragments ==
    UNION {{SUPPORTED_PLATFORMS[i][2][k] : k \in 1..Len(SUPPORTED_PLATFORMS[i][2])} :
              i \in 1..Len(SUPPORTED_PLATFORMS)}

\* C11: for a URL holding a recognized domain fragment before its query
\* string, every URL that differs from it only in the query string gets the
\* same platform.
C11_QueryIndependent ==
    (/\ pc = "returned"
     /\ \E d \in RecognizedFragments : Contains(Lower(WithoutQuery(arg)), d)) =>
        \A u \in Urls : WithoutQuery(u) = WithoutQuery(arg) => detect_platform(u) = res

C13_RetryOnlyWhenEligible ==
    /\ \A k \in 1..Len(stack) :
           Classified(stack[k]) =>
               /\ stack[k].platform = "youtube"
               /\ stack[k].p.try_fallback_clients
               /\ stack[k].sabr_related \/ stack[k].p.youtube_client = None
    /\ Len(attempts) >= 2 =>
           /\ detect_platform(request.url) = "youtube"
           /\ ~request.no_fallback
           /\ stack # <<>> => FirstCall.sabr_related \/ request.youtube_client = None
    /\ request.no_fallback => Len(attempts) <= 1
    /\ request.youtube_client # None /\ stack # <<>> /\ ~FirstCall.sabr_related =>
           Len(attempts) <= 1
    /\ (/\ pc = "exited"
        /\ lastOutcome = "failed"
        /\ request.no_fallback \/ request.youtube_client # None) => Len(attempts) = 1

C13_Witness ==
    /\ pc = "exited"
    /\ detect_platform(request.url) = "youtube"
    /\ ~request.no_fallback
    /\ request.youtube_client # None
    /\ lastOutcome = "failed"
    /\ Len(attempts) = 1

\* The case of C14: the first call, on youtube with fallback enabled and
\* streaming-mode off, failed with a streaming-restriction marker in the
\* downloader's error text, and every client-profile retry has failed.
C14_RetriesExhausted ==
    /\ Len(stack) = 1
    /\ FirstCall.platform = "youtube"
    /\ FirstCall.p.try_fallback_clients
    /\ ~FirstCall.p.try_sabr
    /\ \E phrase \in SABR_PHRASES : Contains(FirstCall.diag, phrase)
    /\ FirstCall.at = "fallback"
    /\ FirstCall.next_client > Len(FirstCall.available_clients)

\* The nested call C14 expects: streaming-mode on, fallback off, the
\* requested client or web
C14_StreamingCall(f) ==
    /\ f.p.try_sabr
    /\ ~f.p.try_fallback_clients
    /\ f.p.youtube_client =
           IF request.youtube_client # None THEN request.youtube_client ELSE Some(<<"web">>)

\* C14: in that case the next step is exactly one further call with
\* streaming-mode forced on, fallback forced off and the requested client
\* (web if none); no attempt follows that call's attempt and its result is
\* the result of the invocation.
C14_StreamingModeRetry ==
    /\ [][C14_RetriesExhausted =>
              Len(stack') = 2 /\ C14_StreamingCall(stack'[2]) /\ attempts' = attempts]_vars
    /\ [](\A i \in 1..Len(attempts) :
              attempts[i].depth = 2 /\ attempts[i].try_sabr =>
                  /\ i = Len(attempts)
                  /\ ~attempts[i].try_fallback_clients
                  /\ pc = "exited" => (exit_code = Some(0) <=> lastOutcome = "ok"))

\* YOUTUBE_CLIENTS without the client of the first attempt, in order
RemainingProfiles ==
    SelectSeq(YOUTUBE_CLIENTS, LAMBDA c : Some(c) # attempts[1].youtube_client)

\* C15: the client-profile retries follow the order of YOUTUBE_CLIENTS, skip
\* the client of the attempt that failed, use each remaining client at most
\* once and run with streaming-mode off; when the first call returns False
\* after retrying was entered, every remaining client has been attempted.
C15_RetryOrder ==
    /\ [](\A i \in 2..Len(attempts) :
              i - 1 <= Len(RemainingProfiles) =>
                  /\ attempts[i].youtube_client = Some(RemainingProfiles[i - 1])
                  /\ ~attempts[i].try_sabr
                  /\ attempts[i].depth = 2)
    /\ [][(/\ Len(stack) = 1
           /\ Classified(FirstCall)
           /\ pc' = "exited"
           /\ exit_code' = Some(1)) =>
              /\ Len(attempts) >= 1 + Len(RemainingProfiles)
              /\ \A k \in 1..Len(RemainingProfiles) :
                     \E i \in 2..Len(attempts) :
                         attempts[i].youtube_client = Some(RemainingProfiles[k])]_vars

C15_Witness ==
    /\ pc = "exited"
    /\ exit_code = Some(1)
    /\ request.youtube_client = None
    /\ Len(attempts) = 1 + Len(YOUTUBE_CLIENTS)
    /\ attempts[Len(attempts)].youtube_client = Some(YOUTUBE_CLIENTS[Len(YOUTUBE_CLIENTS)])
    /\ lastOutcome = "failed"

\* C16: once a download attempt, first or nested, has exited with code 0,
\* no further attempt is issued (no remaining client, no streaming-mode
\* call): the calls only return, the first call returns True and main
\* exits 0.
C16_SuccessShortCircuits ==
    /\ [](lastOutcome = "ok" =>
              /\ pc = "exited" => exit_code = Some(0)
              /\ pc # "exited" =>
                     /\ Len(stack) = 1
                     /\ FirstCall.at \in {"fallback_returned", "sabr_returned"}
                     /\ FirstCall.returned)
    /\ [][lastOutcome = "ok" =>
              /\ attempts' = attempts
              /\ pc' = "exited"
              /\ exit_code' = Some(0)]_vars

C16_Witness ==
    /\ pc = "exited"
    /\ exit_code = Some(0)
    /\ lastOutcome = "ok"
    /\ Len(attempts) = 3
    /\ attempts[3].depth = 2

\* C17: every call made by a retry runs with fallback disabled and never
\* retries itself: download_video is never more than one level below the
\* call of main, and every nested attempt has try_fallback_clients False.
C17_NoNestedRetry ==
    /\ Len(stack) <= 2
    /\ \A k \in 2..Len(stack) :
           /\ ~stack[k].p.try_fallback_clients
           /\ ~Classified(stack[k])
    /\ \A i \in 1..Len(attempts) :
           /\ attempts[i].depth \in {1, 2}
           /\ attempts[i].depth = 2 => ~attempts[i].try_fallback_clients
           /\ i >= 2 => attempts[i].depth = 2

C17_Witness ==
    /\ Len(stack) = 2
    /\ stack[2].at = "classify"
    /\ stack[2].platform = "youtube"
    /\ FirstCall.p.try_fallback_clients
    /\ Len(attempts) = 2

\* The positions of a pass-through list that hold an extractor-argument
\* token: a token holding --extractor-args (the flag, or the single-token
\* form with its value) and the value token that follows the bare flag
ExtractorTokens(extra_args) ==
    {i \in 1..Len(extra_args) :
        \/ Contains(extra_args[i], EXTRACTOR_ARGS)
        \/ i > 1 /\ extra_args[i - 1] = EXTRACTOR_ARGS}

\* A pass-through list without its extractor-argument tokens
RECURSIVE DropTokens(_, _, _)
DropTokens(extra_args, i, dropped) ==
    IF i > Len(extra_args) THEN <<>>
    ELSE IF i \in dropped THEN DropTokens(extra_args, i + 1, dropped)
    ELSE <<extra_args[i]>> \o DropTokens(extra_args, i + 1, dropped)

\* C18: the pass-through arguments handed to a nested call hold no
\* extractor-argument token of the caller's list, neither the flag nor its
\* value, in the single-token and in the two-token form; the other tokens
\* are handed on.
C18_NoExtractorTokensNested ==
    \A k \in 2..Len(stack) :
        LET caller_args == stack[k - 1].p.extra_args IN
        /\ ExtractorTokens(stack[k].p.extra_args) = {}
        /\ stack[k].p.extra_args =
               DropTokens(caller_args, 1, ExtractorTokens(caller_args))

\* C19: a download attempt that runs past the timeout is over.  When it is
\* the first attempt the invocation fails with no retry, also on youtube
\* with fallback enabled and no client named; when it is a nested
\* client-profile attempt it counts as failed and the loop of the first
\* call moves on to the next client.
C19_TimeoutTerminal ==
    /\ [](lastOutcome = "timeout" /\ Len(attempts) = 1 =>
              pc = "exited" /\ exit_code = Some(1))
    /\ [](lastOutcome = "timeout" /\ Len(attempts) >= 2 /\ pc # "exited" =>
              /\ ~FirstCall.returned
              /\ Len(stack) = 1 => FirstCall.at \in {"fallback_returned", "fallback"}
              /\ Len(stack) = 2 =>
                     /\ FirstCall.at = "fallback_call"
                     /\ stack[2].at \in {"prepare", "locate", "build", "execute"}
                     /\ stack[2].p.youtube_client =
                            Some(RemainingProfiles[Len(attempts)]))
    /\ [][(/\ lastOutcome = "timeout"
           /\ Len(stack) = 1
           /\ FirstCall.at = "fallback_returned") =>
              /\ Len(stack') = 1
              /\ stack'[1].at = "fallback"
              /\ stack'[1].next_client = FirstCall.next_client + 1
              /\ attempts' = attempts]_vars
    /\ [][(/\ lastOutcome = "timeout"
           /\ Len(stack) = 1
           /\ FirstCall.at = "fallback"
           /\ FirstCall.next_client <= Len(FirstCall.available_clients)) =>
              /\ Len(stack') = 2
              /\ stack'[2].p.youtube_client =
                     Some(FirstCall.available_clients[FirstCall.next_client])]_vars

C19_Witness ==
    /\ lastOutcome = "timeout"
    /\ Len(attempts) = 2
    /\ Len(stack) = 2
    /\ stack[2].p.youtube_client = Some(YOUTUBE_CLIENTS[2])
    /\ FirstCall.p.youtube_client = None

\* C20: when the caller interrupts during a download attempt, first or
\* nested, every call of download_video is abandoned, no further attempt is
\* issued (the remaining clients and the streaming-mode call are skipped)
\* and the process exits with code 1.
C20_InterruptAborts ==
    /\ [](lastOutcome = "interrupted" =>
              /\ pc = "exited"
              /\ stack = <<>>
              /\ exit_code = Some(1))
    /\ [][lastOutcome = "interrupted" => attempts' = attempts]_vars

C20_Witness ==
    /\ lastOutcome = "interrupted"
    /\ Len(attempts) = 3
    /\ attempts[3].depth = 2
    /\ attempts[3].youtube_client = Some(YOUTUBE_CLIENTS[2])
    /\ pc = "exited"

SLEEP_INTERVAL == <<"--sleep-interval">>

\* The positions of the rate-limit flag in a command
SleepFlags(cmd) == {i \in 1..Len(cmd) : cmd[i] = SLEEP_INTERVAL}

\* C21 as amended: the rate-limit flag appears in the built command exactly
\* when the request carries a non-zero rate-limit value, whatever the
\* platform (youtube, x or other); it appears once and is followed by the
\* value in decimal.
C21_SleepIntervalAnyPlatform ==
    pc = "returned" =>
        /\ SleepFlags(res.base) # {} <=> arg.sleep_interval \notin {None, Some(0)}
        /\ Cardinality(SleepFlags(res.base)) <= 1
        /\ \A i \in SleepFlags(res.base) :
               i < Len(res.base) /\ ParseInt(res.base[i + 1]) = arg.sleep_interval[1]

C21_Witness ==
    /\ pc = "returned"
    /\ detect_platform(arg.url) = "x"
    /\ arg.sleep_interval = Some(5)
    /\ SleepFlags(res.base) # {}

\* C21 as stated: the rate-limit flag appears in the built command only
\* when the platform is youtube and a rate-limit value was supplied; for a
\* URL classified x or other it never appears.
C21_SleepIntervalYoutubeOnly ==
    pc = "returned" =>
        /\ SleepFlags(res.base) # {} =>
               detect_platform(arg.url) = "youtube" /\ arg.sleep_interval # None
        /\ detect_platform(arg.url) \in {"x", "other"} => SleepFlags(res.base) = {}

\* C22: provided every external process returns, every invocation ends:
\* main exits, with code 0 (success) or 1 (a reported failure), for every
\* URL, every setting and every sequence of attempt outcomes.
C22_Terminates == <>(pc = "exited" /\ exit_code \in {Some(0), Some(1)})

C22_Witness ==
    /\ pc = "exited"
    /\ exit_code = Some(1)
    /\ lastOutcome = "timeout"
    /\ Len(attempts) = 1 + Len(YOUTUBE_CLIENTS)

\* C23: all download attempts of one invocation, the first and every nested
\* retry, are given the same output directory, whatever the metadata
\* queries made along the way returned.
C23_OneOutputDir == Cardinality(dirsUsed) <= 1

\* C24: a nested retry gets from the call that made it, unchanged, the URL,
\* the resolved format selector, the content-filter category lists, the
\* chapter toggle, the rate limit and the token-provider mode, URL and
\* script; the selector its attempt runs with is the caller's.
C24_NestedRequestUnchanged ==
    \A k \in 2..Len(stack) :
        LET caller == stack[k - 1]
            nested == stack[k]
        IN /\ nested.p.url = caller.p.url
           /\ nested.p.sponsorblock_mark = caller.p.sponsorblock_mark
           /\ nested.p.sponsorblock_remove = caller.p.sponsorblock_remove
           /\ nested.p.embed_chapters = caller.p.embed_chapters
           /\ nested.p.sleep_interval = caller.p.sleep_interval
           /\ nested.p.pot_provider_mode = caller.p.pot_provider_mode
           /\ nested.p.pot_provider_url = caller.p.pot_provider_url
           /\ nested.p.pot_provider_script = caller.p.pot_provider_script
           /\ nested.p.format_selector = Some(caller.format_selector)
           /\ nested.at # "prepare" => nested.format_selector = caller.format_selector

=============================================================================
